---- MODULE Spec2Model ----
(***************************************************************************)
(* Bus trip / passenger roster API (mark1um/bus-seat-manage-api).          *)
(*                                                                         *)
(* Two servers share one datastore schema:                                 *)
(*   src/index.js      the baseline server (no access check, no DELETE)    *)
(*   src/api/index.js  the authenticated server (authMiddleware on every   *)
(*                     trip, passenger and manifest route)                 *)
(* The datastore is the one of src/unnamed/part_000 (migration SQL) and    *)
(* src/unnamed/part_001 (Prisma schema).                                   *)
(*                                                                         *)
(* A handler runs synchronously up to its first await; every await is a    *)
(* datastore round trip, executed atomically by the datastore.  An action  *)
(* of this module is one such run: the access check, the handler's code    *)
(* up to and including the datastore statement it awaits, and the code     *)
(* after it up to the next await or the response.                          *)
(***************************************************************************)
EXTENDS Integers, Sequences, FiniteSets, TLC

\* ------------------------------------------------------------------ bounds
\* Trips and passengers ever created (uuidv4 ids are modelled as 1, 2, ...,
\* never reused).
MaxTrips == 2
MaxPassengers == 2

\* ------------------------------------------------------------ input sets
\* CREATE TYPE "BusType" AS ENUM ('small', 'medium', 'large')
BusType == {"small", "medium", "large"}
\* busType values clients send: members of the enum and one that is not.
BusTypeInputs == {"medium", "minibus"}
Destinations == {"Rio"}
Names == {"Ana"}
Seats == {"1A"}
CPFS == {"111", "222"}
\* JSON values clients send for hasPaid, as JSON text.
JsonValues == {"true", "false", "\"yes\""}

\* typeof v === "boolean"
IsBoolean(v) == v \in {"true", "false"}
\* The boolean a JSON boolean denotes.
ToBool(v) == v = "true"

\* Authorization headers clients send, as the words and single spaces they are
\* made of; <<>> is a request without the header.
Headers ==
  { <<>>,
    <<"Bearer">>,
    <<"Basic", " ", "tokA">>,
    <<"Bearer", " ", "expired">>,
    <<"Bearer", " ", "tokA">>,
    <<"bearer", " ", "tokA">> }
\* y position of the document after the title and moveDown(1), as pdfkit
\* reports it.
DocYs == {100, 131}

VARIABLES
  variant,        \* "baseline" (src/index.js) or "api" (src/api/index.js)
  cpfIndex,       \* whether the datastore carries the Passenger_cpf_key index
  nslots,         \* how many operations may be in progress at once
  trips,          \* table Trip
  passengers,     \* table Passenger
  nextTrip,       \* the next uuidv4() of a trip
  nextPassenger,  \* the next uuidv4() of a passenger
  slots,          \* per connection: the request in progress or last answered
  epoch           \* the datastore when the operations now recorded began

vars == <<variant, cpfIndex, nslots, trips, passengers, nextTrip, nextPassenger,
          slots, epoch>>

\* ------------------------------------------------------------- requests
Idle ==
  [ pc |-> "idle", op |-> "", auth |-> <<>>, tripId |-> 0, pid |-> 0,
    val |-> "", cpf |-> "", userId |-> "", found |-> {},
    status |-> 0, error |-> "", trips |-> {}, passengers |-> <<>>,
    contentType |-> "", attachment |-> 0, title |-> "", tableTop |-> 0,
    doc |-> <<>>,
    repeat |-> FALSE, prev |-> <<>> ]

InFlight(s) == s.pc \notin {"idle", "done"}
Quiet == \A s \in DOMAIN slots : ~InFlight(slots[s])
CanStart(r) == r \in DOMAIN slots /\ slots[r].pc = "idle"

Overflow == [trips |-> {}, passengers |-> {}, ops |-> <<0>>]
\* The record of what ran since the datastore snapshot: a request that starts
\* while nothing is in progress starts a new record.
StartEpoch(r) ==
  IF Quiet THEN [trips |-> trips, passengers |-> passengers, ops |-> <<r>>]
  ELSE IF Len(epoch.ops) = 1 /\ epoch.ops[1] # 0
       THEN [epoch EXCEPT !.ops = Append(@, r)]
       ELSE Overflow

\* res.status(status).json({ error })
Answer(req, status, error) ==
  [req EXCEPT !.pc = "done", !.status = status, !.error = error, !.found = {}]

\* ----------------------------------------------------------- access check
\* authHeader.split(' ') on a header given as words and single spaces.
RECURSIVE SplitFrom(_, _, _)
SplitFrom(h, i, acc) ==
  IF i > Len(h) THEN acc
  ELSE IF h[i] = " " THEN SplitFrom(h, i + 1, Append(acc, ""))
  ELSE SplitFrom(h, i + 1, [acc EXCEPT ![Len(acc)] = h[i]])
Split(h) == SplitFrom(h, 1, <<"">>)

\* /^Bearer$/i.test(scheme)
BearerRegex(scheme) == scheme \in {"Bearer", "bearer", "BEARER"}

\* jwt.verify(token, secret): the tokens this server signed and that have not
\* expired decode to their subject.
JwtVerify(token) ==
  IF token = "tokA" THEN [err |-> FALSE, id |-> "u1"]
  ELSE [err |-> TRUE, id |-> ""]

AuthMiddlewareLax(h) ==
  IF h = <<>> THEN [ok |-> FALSE, status |-> 401, error |-> "No token provided", userId |-> ""]
  ELSE LET parts == Split(h) IN
    IF Len(parts) # 2 THEN [ok |-> FALSE, status |-> 401, error |-> "Token error", userId |-> ""]
    ELSE IF ~BearerRegex(parts[1])
    THEN [ok |-> FALSE, status |-> 401, error |-> "Token malformatted", userId |-> ""]
    ELSE [ok |-> TRUE, status |-> 0, error |-> "", userId |-> JwtVerify(parts[2]).id]
AuthMiddleware(h) ==
  IF h = <<>> THEN [ok |-> FALSE, status |-> 401, error |-> "No token provided", userId |-> ""]
  ELSE LET parts == Split(h) IN
    IF Len(parts) # 2 THEN [ok |-> FALSE, status |-> 401, error |-> "Token error", userId |-> ""]
    ELSE IF ~BearerRegex(parts[1])
    THEN [ok |-> FALSE, status |-> 401, error |-> "Token malformatted", userId |-> ""]
    ELSE LET v == JwtVerify(parts[2]) IN
      IF v.err THEN [ok |-> FALSE, status |-> 401, error |-> "Token invalid", userId |-> ""]
      ELSE [ok |-> TRUE, status |-> 0, error |-> "", userId |-> v.id]

\* The routes of src/api/index.js name authMiddleware before their handler;
\* those of src/index.js name the handler alone.
Access(h) ==
  IF variant = "api" THEN AuthMiddleware(h)
  ELSE [ok |-> TRUE, status |-> 0, error |-> "", userId |-> ""]
\* The headers the clients of a server send.
HeadersOf(v) == IF v = "api" THEN Headers ELSE {<<>>}

\* The routes of a server.
Routes(v) ==
  {"createTrip", "listTrips", "getTrip", "addPassenger", "listPassengers", "pay", "pdf"}
    \cup (IF v = "api" THEN {"remove"} ELSE {})

\* A request the access check answered: the handler never ran, so it never read
\* its parameters.
Denied(op, h) ==
  LET a == Access(h) IN
  [Idle EXCEPT !.pc = "done", !.op = op, !.auth = h, !.status = a.status, !.error = a.error]
\* The request as the handler sees it (req.userId set by the access check).
Request(op, h, t, p) ==
  [Idle EXCEPT !.op = op, !.auth = h, !.tripId = t, !.pid = p, !.userId = Access(h).userId]

\* ------------------------------------------------------------- datastore
\* All orders in which the datastore may return the rows of S.
Orders(S) ==
  {f \in [1..Cardinality(S) -> S] : \A i, j \in 1..Cardinality(S) : i # j => f[i] # f[j]}

\* prisma.trip.findUnique({ where: { id } })
TripFindUnique(ts, id) == {t \in ts : t.id = id}
\* include: { passengers: true } / prisma.passenger.findMany({ where: { tripId } })
PassengersOf(ps, tripId) == {p \in ps : p.tripId = tripId}
\* prisma.passenger.findUnique({ where: { id } })
PassengerFindUnique(ps, id) == {p \in ps : p.id = id}
\* prisma.passenger.update({ where: { id }, data: { hasPaid } }) on an existing row
PassengerUpdateAll(ps, id, b) ==
  {IF \E q \in ps : q.id = id /\ q.tripId = p.tripId THEN [p EXCEPT !.hasPaid = b] ELSE p : p \in ps}
PassengerUpdateToggle(ps, id, b) ==
  {IF p.id = id THEN [p EXCEPT !.hasPaid = ~p.hasPaid] ELSE p : p \in ps}
PassengerUpdate(ps, id, b) ==
  {IF p.id = id THEN [p EXCEPT !.hasPaid = b] ELSE p : p \in ps}
\* prisma.passenger.delete({ where: { id } }) on an existing row
PassengerDelete(ps, id) == {p \in ps : p.id # id}

\* Passenger_tripId_fkey: the row's tripId must name a trip.
ForeignKeyOk(ts, tripId) == \E t \in ts : t.id = tripId
\* Passenger_cpf_key, where the datastore carries it.
CpfOk(ps, cpf) == cpfIndex => \A p \in ps : p.cpf # cpf
\* ON DELETE CASCADE of Passenger_tripId_fkey.
CascadeNone(ps, tripId) == ps
Cascade(ps, tripId) == {p \in ps : p.tripId # tripId}

\* ------------------------------------------------------- manifest layout
\* The header row: .text("Nome", 50, tableTop) ... .text("Pago", 480, tableTop)
HeaderRow(tableTop) ==
  << [text |-> "Nome", x |-> 50, y |-> tableTop],
     [text |-> "CPF", x |-> 250, y |-> tableTop],
     [text |-> "Assento", x |-> 400, y |-> tableTop],
     [text |-> "Pago", x |-> 480, y |-> tableTop] >>
\* The body of trip.passengers.forEach((passenger, index) => ...); "Nao"
\* stands for the source's "Não".
PassengerRowFlat(passenger, index, tableTop) ==
  LET y == tableTop + (index + 1) * 20 IN
  << [text |-> passenger.name, x |-> 50, y |-> y],
     [text |-> passenger.cpf, x |-> 250, y |-> y],
     [text |-> passenger.seatNumber, x |-> 400, y |-> y],
     [text |-> IF passenger.hasPaid THEN "Sim" ELSE "Nao", x |-> 480, y |-> y] >>
PassengerRow(passenger, index, tableTop) ==
  LET y == tableTop + (index + 2) * 20 IN
  << [text |-> passenger.name, x |-> 50, y |-> y],
     [text |-> passenger.cpf, x |-> 250, y |-> y],
     [text |-> passenger.seatNumber, x |-> 400, y |-> y],
     [text |-> IF passenger.hasPaid THEN "Sim" ELSE "Nao", x |-> 480, y |-> y] >>
\* forEach over the loaded passengers, index counted from 0.
RECURSIVE PassengerRows(_, _, _)
PassengerRows(loaded, i, tableTop) ==
  IF i > Len(loaded) THEN <<>>
  ELSE PassengerRow(loaded[i], i - 1, tableTop) \o PassengerRows(loaded, i + 1, tableTop)

\* ---------------------------------------------------------------- actions
Db == <<trips, passengers, nextTrip, nextPassenger>>
Deployment == <<variant, cpfIndex, nslots>>

\* A request to route op that authMiddleware answers itself (it calls next()
\* on no path that answers).
Reject(r, h, op) ==
  /\ CanStart(r)
  /\ ~Access(h).ok
  /\ epoch' = StartEpoch(r)
  /\ slots' = [slots EXCEPT ![r] = Denied(op, h)]
  /\ UNCHANGED <<Deployment, Db>>

\* POST /trips
CreateTrip(r, h, destination, busType) ==
  /\ CanStart(r)
  /\ epoch' = StartEpoch(r)
  /\ UNCHANGED <<Deployment, passengers, nextPassenger>>
  /\ Access(h).ok
  /\ IF busType \notin BusType
     THEN /\ slots' = [slots EXCEPT ![r] = Answer(Request("createTrip", h, 0, 0), 500, "invalid enum value")]
          /\ UNCHANGED <<trips, nextTrip>>
     ELSE LET trip == [id |-> nextTrip, destination |-> destination, busType |-> busType] IN
          /\ nextTrip <= MaxTrips
          /\ trips' = trips \cup {trip}
          /\ nextTrip' = nextTrip + 1
          /\ slots' = [slots EXCEPT ![r] =
                 [Answer(Request("createTrip", h, 0, 0), 201, "") EXCEPT !.trips = {trip}]]

\* prisma.trip.findMany() followed by res.json(trips)
ListTripsBody(ts) == ts

\* GET /trips
ListTrips(r, h) ==
  /\ CanStart(r)
  /\ epoch' = StartEpoch(r)
  /\ UNCHANGED <<Deployment, Db>>
  /\ Access(h).ok
  /\ slots' = [slots EXCEPT ![r] =
              [Answer(Request("listTrips", h, 0, 0), 200, "") EXCEPT
                 !.trips = ListTripsBody(trips)]]

\* GET /trips/:tripId
GetTrip(r, h, tripId) ==
  /\ CanStart(r)
  /\ epoch' = StartEpoch(r)
  /\ UNCHANGED <<Deployment, Db>>
  /\ Access(h).ok
  /\ IF TripFindUnique(trips, tripId) = {}
     THEN slots' = [slots EXCEPT ![r] = Answer(Request("getTrip", h, tripId, 0), 404, "Trip not found")]
     ELSE \E loaded \in Orders(PassengersOf(passengers, tripId)) :
            slots' = [slots EXCEPT ![r] =
              [Answer(Request("getTrip", h, tripId, 0), 200, "") EXCEPT
                 !.trips = TripFindUnique(trips, tripId), !.passengers = loaded]]

\* Whether prisma.passenger.create is refused, and why ("" when it is not).
CreateRefusalFull(ps, ts, tripId, cpf, hasPaid) ==
  IF ~IsBoolean(hasPaid) THEN "invalid argument hasPaid"
  ELSE IF ~CpfOk(ps, cpf) THEN "unique constraint Passenger_cpf_key"
  ELSE IF ~ForeignKeyOk(ts, tripId) THEN "foreign key constraint Passenger_tripId_fkey"
  ELSE IF Cardinality(PassengersOf(ps, tripId)) >= 1 THEN "no seats"
  ELSE ""
CreateRefusal(ps, ts, tripId, cpf, hasPaid) ==
  IF ~IsBoolean(hasPaid) THEN "invalid argument hasPaid"
  ELSE IF ~CpfOk(ps, cpf) THEN "unique constraint Passenger_cpf_key"
  ELSE IF ~ForeignKeyOk(ts, tripId) THEN "foreign key constraint Passenger_tripId_fkey"
  ELSE ""

\* POST /trips/:tripId/passengers
AddPassenger(r, h, tripId, name, cpf, seatNumber, hasPaid) ==
  /\ CanStart(r)
  /\ Access(h).ok
  /\ epoch' = StartEpoch(r)
  /\ UNCHANGED <<Deployment, trips, nextTrip>>
  /\ LET req == [Request("addPassenger", h, tripId, 0) EXCEPT !.cpf = cpf, !.val = hasPaid]
         refusal == CreateRefusal(passengers, trips, tripId, cpf, hasPaid)
     IN
     IF refusal # ""
     THEN /\ slots' = [slots EXCEPT ![r] = Answer(req, 500, refusal)]
          /\ UNCHANGED <<passengers, nextPassenger>>
     ELSE LET passenger == [id |-> nextPassenger, name |-> name, cpf |-> cpf,
                            seatNumber |-> seatNumber, hasPaid |-> ToBool(hasPaid),
                            tripId |-> tripId] IN
          /\ nextPassenger <= MaxPassengers
          /\ passengers' = passengers \cup {passenger}
          /\ nextPassenger' = nextPassenger + 1
          /\ slots' = [slots EXCEPT ![r] =
                 [Answer(req, 201, "") EXCEPT !.passengers = <<passenger>>]]

\* GET /trips/:tripId/passengers
ListPassengers(r, h, tripId) ==
  /\ CanStart(r)
  /\ epoch' = StartEpoch(r)
  /\ UNCHANGED <<Deployment, Db>>
  /\ Access(h).ok
  /\ \E loaded \in Orders(PassengersOf(passengers, tripId)) :
            slots' = [slots EXCEPT ![r] =
              [Answer(Request("listPassengers", h, tripId, 0), 200, "") EXCEPT
                 !.passengers = loaded]]

\* The checks of the payment handler, in its order, on the result of
\* findUnique: the answer it returns early with, or status 0 to go on.
PaymentCheckLookupFirst(found, tripId, hasPaid) ==
  IF found = {} THEN [status |-> 404, error |-> "Passenger not found"]
  ELSE IF ~IsBoolean(hasPaid) THEN [status |-> 400, error |-> "Invalid value for hasPaid"]
  ELSE IF \E p \in found : p.tripId # tripId
  THEN [status |-> 400, error |-> "Passenger does not belong to this trip"]
  ELSE [status |-> 0, error |-> ""]
PaymentCheck(found, tripId, hasPaid) ==
  IF ~IsBoolean(hasPaid) THEN [status |-> 400, error |-> "Invalid value for hasPaid"]
  ELSE IF found = {} THEN [status |-> 404, error |-> "Passenger not found"]
  ELSE IF \E p \in found : p.tripId # tripId
  THEN [status |-> 400, error |-> "Passenger does not belong to this trip"]
  ELSE [status |-> 0, error |-> ""]

\* The checks of the delete handler on the result of findUnique.
OwnershipCheckNone(found, tripId) ==
  IF found = {} THEN [status |-> 404, error |-> "Passenger not found"]
  ELSE [status |-> 0, error |-> ""]
OwnershipCheck(found, tripId) ==
  IF found = {} THEN [status |-> 404, error |-> "Passenger not found"]
  ELSE IF \E p \in found : p.tripId # tripId
  THEN [status |-> 400, error |-> "Passenger does not belong to this trip"]
  ELSE [status |-> 0, error |-> ""]

\* PUT /trips/:tripId/passengers/:passengerId/payment, up to the await of
\* prisma.passenger.update
PayFind(r, h, tripId, passengerId, hasPaid) ==
  /\ CanStart(r)
  /\ Access(h).ok
  /\ epoch' = StartEpoch(r)
  /\ UNCHANGED <<Deployment, Db>>
  /\ LET old == slots[r]
         again == /\ old.op = "pay" /\ old.tripId = tripId /\ old.pid = passengerId
                  /\ old.val = hasPaid /\ epoch.ops = <<r>> /\ Quiet
         req == [Request("pay", h, tripId, passengerId) EXCEPT
                   !.val = hasPaid, !.repeat = again,
                   !.prev = IF again THEN old.passengers ELSE <<>>]
         found == PassengerFindUnique(passengers, passengerId)
         check == PaymentCheck(found, tripId, hasPaid)
     IN
     IF check.status # 0
     THEN slots' = [slots EXCEPT ![r] = Answer(req, check.status, check.error)]
     ELSE slots' = [slots EXCEPT ![r] = [req EXCEPT !.pc = "update", !.found = found]]

\* The awaited prisma.passenger.update and res.json(updatedPassenger); the
\* update of a row that is gone throws, and the catch answers 500.
PayUpdate(r) ==
  /\ r \in DOMAIN slots
  /\ slots[r].pc = "update"
  /\ UNCHANGED <<Deployment, trips, nextTrip, nextPassenger, epoch>>
  /\ LET req == slots[r] IN
     IF PassengerFindUnique(passengers, req.pid) = {}
     THEN /\ slots' = [slots EXCEPT ![r] = Answer(req, 500, "record to update not found")]
          /\ UNCHANGED passengers
     ELSE /\ passengers' = PassengerUpdate(passengers, req.pid, ToBool(req.val))
          /\ slots' = [slots EXCEPT ![r] =
                 [Answer(req, 200, "") EXCEPT
                    !.passengers = <<CHOOSE p \in passengers' : p.id = req.pid>>]]

\* DELETE /api/trips/:tripId/passengers/:passengerId, up to the await of
\* prisma.passenger.delete; src/index.js has no such route.
RemoveFind(r, h, tripId, passengerId) ==
  /\ variant = "api"
  /\ CanStart(r)
  /\ Access(h).ok
  /\ epoch' = StartEpoch(r)
  /\ UNCHANGED <<Deployment, Db>>
  /\ LET req == Request("remove", h, tripId, passengerId)
         found == PassengerFindUnique(passengers, passengerId)
         check == OwnershipCheck(found, tripId)
     IN
     IF check.status # 0
     THEN slots' = [slots EXCEPT ![r] = Answer(req, check.status, check.error)]
     ELSE slots' = [slots EXCEPT ![r] = [req EXCEPT !.pc = "delete", !.found = found]]

\* The awaited prisma.passenger.delete and res.status(204).send(); the delete
\* of a row that is gone throws, and the catch answers 500.
RemoveDelete(r) ==
  /\ r \in DOMAIN slots
  /\ slots[r].pc = "delete"
  /\ UNCHANGED <<Deployment, trips, nextTrip, nextPassenger, epoch>>
  /\ LET req == slots[r] IN
     IF PassengerFindUnique(passengers, req.pid) = {}
     THEN /\ slots' = [slots EXCEPT ![r] = Answer(req, 500, "record to delete does not exist")]
          /\ UNCHANGED passengers
     ELSE /\ passengers' = PassengerDelete(passengers, req.pid)
          /\ slots' = [slots EXCEPT ![r] = Answer(req, 204, "")]

\* GET /trips/:tripId/passengers/pdf
ManifestPdf(r, h, tripId) ==
  /\ CanStart(r)
  /\ Access(h).ok
  /\ epoch' = StartEpoch(r)
  /\ UNCHANGED <<Deployment, Db>>
  /\ LET req == Request("pdf", h, tripId, 0) IN
     IF TripFindUnique(trips, tripId) = {}
     THEN slots' = [slots EXCEPT ![r] = Answer(req, 404, "Trip not found")]
     ELSE \E loaded \in Orders(PassengersOf(passengers, tripId)), tableTop \in DocYs :
            LET trip == CHOOSE t \in trips : t.id = tripId IN
            slots' = [slots EXCEPT ![r] =
              [Answer(req, 200, "") EXCEPT
                 !.contentType = "application/pdf", !.attachment = tripId,
                 !.title = trip.destination, !.tableTop = tableTop,
                 !.passengers = loaded,
                 !.doc = HeaderRow(tableTop) \o PassengerRows(loaded, 1, tableTop)]]

\* What a connection remembers of the request it last got answered, when the
\* next one is sent on it: the payment call that succeeded, so that the same
\* call made again can be told.
Memory(s) ==
  IF s.op = "pay" /\ s.status = 200
  THEN [Idle EXCEPT !.op = "pay", !.tripId = s.tripId, !.pid = s.pid, !.val = s.val,
                    !.passengers = s.passengers]
  ELSE Idle

\* The client has the answer; the connection is free for its next request.
Release(r) ==
  /\ r \in DOMAIN slots
  /\ slots[r].pc = "done"
  /\ slots' = [slots EXCEPT ![r] = Memory(slots[r])]
  /\ epoch' = IF epoch.ops = <<r>> /\ Memory(slots[r]) # Idle
              THEN [Overflow EXCEPT !.ops = <<r>>]
              ELSE IF \A s \in DOMAIN slots : ~InFlight(slots[s]) THEN Overflow ELSE epoch
  /\ UNCHANGED <<Deployment, Db>>

\* DELETE FROM "Trip" WHERE id = tripId, run on the datastore itself (no route
\* deletes a trip): Passenger_tripId_fkey removes the trip's passengers with it.
DbDeleteTrip(tripId) ==
  /\ TripFindUnique(trips, tripId) # {}
  /\ Cardinality({s \in DOMAIN slots : InFlight(slots[s])}) < nslots
  /\ trips' = trips \ TripFindUnique(trips, tripId)
  /\ passengers' = Cascade(passengers, tripId)
  /\ epoch' = Overflow
  /\ UNCHANGED <<Deployment, nextTrip, nextPassenger, slots>>

\* The headers with which a request reaches its handler.
Accepted == {h \in HeadersOf(variant) : Access(h).ok}

Next ==
  \/ \E r \in DOMAIN slots, h \in HeadersOf(variant), op \in Routes(variant) : Reject(r, h, op)
  \/ \E r \in DOMAIN slots, h \in Accepted, d \in Destinations, b \in BusTypeInputs :
       CreateTrip(r, h, d, b)
  \/ \E r \in DOMAIN slots, h \in Accepted : ListTrips(r, h)
  \/ \E r \in DOMAIN slots, h \in Accepted, t \in 1..MaxTrips : GetTrip(r, h, t)
  \/ \E r \in DOMAIN slots, h \in Accepted, t \in 1..MaxTrips : ListPassengers(r, h, t)
  \/ \E r \in DOMAIN slots, h \in Accepted, t \in 1..MaxTrips : ManifestPdf(r, h, t)
  \/ \E r \in DOMAIN slots, h \in Accepted, t \in 1..MaxTrips,
        n \in Names, c \in CPFS, s \in Seats, v \in JsonValues :
       AddPassenger(r, h, t, n, c, s, v)
  \/ \E r \in DOMAIN slots, h \in Accepted, t \in 1..MaxTrips, p \in 1..MaxPassengers,
        v \in JsonValues :
       PayFind(r, h, t, p, v)
  \/ \E r \in DOMAIN slots, h \in Accepted, t \in 1..MaxTrips, p \in 1..MaxPassengers :
       RemoveFind(r, h, t, p)
  \/ \E r \in DOMAIN slots : PayUpdate(r)
  \/ \E r \in DOMAIN slots : RemoveDelete(r)
  \/ \E r \in DOMAIN slots : Release(r)
  \/ \E t \in 1..MaxTrips : DbDeleteTrip(t)

InitDb ==
  /\ variant \in {"baseline", "api"}
  /\ cpfIndex \in BOOLEAN
  /\ trips = {}
  /\ passengers = {}
  /\ nextTrip = 1
  /\ nextPassenger = 1
  /\ epoch = Overflow

\* Requests one at a time.
Init ==
  /\ InitDb
  /\ nslots = 1
  /\ slots = [s \in 1..nslots |-> Idle]

\* Payment and delete requests, two of which may be in progress at once, on
\* a datastore that holds MaxTrips trips and MaxPassengers passengers.
SeedCpf(i) == IF i = 1 THEN "111" ELSE IF i = 2 THEN "222" ELSE "333"
SeedTrip(i) == [id |-> i, destination |-> "Rio", busType |-> "medium"]
SeedPassenger(i) ==
  [id |-> i, name |-> "Ana", cpf |-> SeedCpf(i), seatNumber |-> "1A", hasPaid |-> FALSE,
   tripId |-> ((i - 1) % MaxTrips) + 1]
InitConcurrent ==
  /\ variant \in {"baseline", "api"}
  /\ cpfIndex = TRUE
  /\ trips = {SeedTrip(i) : i \in 1..MaxTrips}
  /\ passengers = {SeedPassenger(i) : i \in 1..MaxPassengers}
  /\ nextTrip = MaxTrips + 1
  /\ nextPassenger = MaxPassengers + 1
  /\ epoch = Overflow
  /\ nslots = 2
  /\ slots = [s \in 1..nslots |-> Idle]

NextConcurrent ==
  \/ \E r \in DOMAIN slots, h \in Accepted, t \in 1..MaxTrips, p \in 1..MaxPassengers,
        v \in JsonValues :
       PayFind(r, h, t, p, v)
  \/ \E r \in DOMAIN slots, h \in Accepted, t \in 1..MaxTrips, p \in 1..MaxPassengers :
       RemoveFind(r, h, t, p)
  \/ \E r \in DOMAIN slots : PayUpdate(r)
  \/ \E r \in DOMAIN slots : RemoveDelete(r)
  \/ \E r \in DOMAIN slots : Release(r)

Spec == Init /\ [][Next]_vars
SpecConcurrent == InitConcurrent /\ [][NextConcurrent]_vars


\* ----------------------------------------------------------------- claims
\* Request r has been answered, it ran alone on the datastore recorded in
\* epoch, and nothing has run since.
Fresh(r) == slots[r].pc = "done" /\ epoch.ops = <<r>>
\* The handler of the request in s ran (the access check let it through).
Handled(s) == s.status # 401
\* The row of passenger id in ps, as a set.
Row(ps, id) == {p \in ps : p.id = id}
DbUnchanged == trips = epoch.trips /\ passengers = epoch.passengers

\* C1: setPaymentStatus answers 400 (invalid value) when hasPaid is not a
\* boolean, whatever the passenger; otherwise 404 when the passenger does not
\* exist; otherwise 400 (ownership mismatch) when it belongs to another trip;
\* otherwise it stores hasPaid and answers 200 with the updated passenger.  The
\* three failures leave trips and passengers unchanged.
PaymentContract ==
  \A r \in DOMAIN slots :
    LET s == slots[r]
        row == Row(epoch.passengers, s.pid)
        updated == {[p EXCEPT !.hasPaid = (s.val = "true")] : p \in row}
    IN
    (Fresh(r) /\ s.op = "pay" /\ Handled(s)) =>
      IF s.val \notin {"true", "false"}
      THEN s.status = 400 /\ s.error = "Invalid value for hasPaid" /\ DbUnchanged
      ELSE IF row = {}
      THEN s.status = 404 /\ s.error = "Passenger not found" /\ DbUnchanged
      ELSE IF \E p \in row : p.tripId # s.tripId
      THEN /\ s.status = 400
           /\ s.error = "Passenger does not belong to this trip"
           /\ DbUnchanged
      ELSE /\ s.status = 200
           /\ trips = epoch.trips
           /\ passengers = (epoch.passengers \ row) \cup updated
           /\ \A p \in updated : s.passengers = <<p>>
\* A payment request for a passenger of another trip was answered.
PaymentContractWitness ==
  \E r \in DOMAIN slots :
    /\ Fresh(r) /\ slots[r].op = "pay"
    /\ slots[r].val \in {"true", "false"}
    /\ \E p \in epoch.passengers : p.id = slots[r].pid /\ p.tripId # slots[r].tripId
    /\ slots[r].status = 400

\* C2: removePassenger answers 404 when the passenger does not exist, 400 when
\* it belongs to another trip (and it stays stored, unchanged); otherwise exactly
\* that passenger is removed, nothing else changes, and the answer is 204 with
\* no body.
RemoveContract ==
  \A r \in DOMAIN slots :
    LET s == slots[r]
        row == Row(epoch.passengers, s.pid)
    IN
    (Fresh(r) /\ s.op = "remove" /\ Handled(s)) =>
      IF row = {}
      THEN s.status = 404 /\ s.error = "Passenger not found" /\ DbUnchanged
      ELSE IF \E p \in row : p.tripId # s.tripId
      THEN /\ s.status = 400
           /\ s.error = "Passenger does not belong to this trip"
           /\ DbUnchanged
      ELSE /\ s.status = 204
           /\ s.error = "" /\ s.passengers = <<>> /\ s.trips = {}
           /\ trips = epoch.trips
           /\ passengers = epoch.passengers \ row
\* A delete request for a passenger of another trip was answered.
RemoveContractWitness ==
  \E r \in DOMAIN slots :
    /\ Fresh(r) /\ slots[r].op = "remove"
    /\ \E p \in epoch.passengers : p.id = slots[r].pid /\ p.tripId # slots[r].tripId
    /\ slots[r].status = 400
    /\ \E p \in passengers : p.id = slots[r].pid

\* C3: no two stored passengers have the same cpf, across all trips, and an
\* addPassenger whose cpf is that of a stored passenger fails with 500 and
\* leaves the passengers unchanged.
CpfUnique ==
  /\ \A p, q \in passengers : p.cpf = q.cpf => p.id = q.id
  /\ \A r \in DOMAIN slots :
       LET s == slots[r] IN
       (/\ Fresh(r) /\ s.op = "addPassenger" /\ Handled(s)
        /\ \E p \in epoch.passengers : p.cpf = s.cpf)
         => s.status = 500 /\ passengers = epoch.passengers

\* C4: every stored passenger's tripId is the id of a stored trip; an
\* addPassenger naming no stored trip is answered 500 and stores nothing; the
\* deletion of a trip removes its passengers.
NoOrphans ==
  /\ \A p \in passengers : \E t \in trips : t.id = p.tripId
  /\ \A r \in DOMAIN slots :
       LET s == slots[r] IN
       (/\ Fresh(r) /\ s.op = "addPassenger" /\ Handled(s)
        /\ \A t \in epoch.trips : t.id # s.tripId)
         => s.status = 500 /\ passengers = epoch.passengers
\* A trip that had a passenger has been deleted (the baseline server has no
\* route that deletes a passenger) while another trip remains.
NoOrphansWitness ==
  /\ variant = "baseline"
  /\ nextPassenger > 1
  /\ passengers = {}
  /\ trips # {}

\* One run of the payment handler with nothing in between.
PaymentHandler(ps, tripId, passengerId, hasPaid) ==
  LET found == PassengerFindUnique(ps, passengerId)
      check == PaymentCheck(found, tripId, hasPaid)
      after == PassengerUpdate(ps, passengerId, ToBool(hasPaid))
  IN
  IF check.status # 0
  THEN [status |-> check.status, error |-> check.error, body |-> <<>>, passengers |-> ps]
  ELSE [status |-> 200, error |-> "",
        body |-> <<CHOOSE p \in after : p.id = passengerId>>, passengers |-> after]
\* One run of the delete handler with nothing in between.
RemoveHandler(ps, tripId, passengerId) ==
  LET found == PassengerFindUnique(ps, passengerId)
      check == OwnershipCheck(found, tripId)
  IN
  IF check.status # 0
  THEN [status |-> check.status, error |-> check.error, body |-> <<>>, passengers |-> ps]
  ELSE [status |-> 204, error |-> "", body |-> <<>>,
        passengers |-> PassengerDelete(ps, passengerId)]
SerialRun(ps, s) ==
  IF s.op = "pay" THEN PaymentHandler(ps, s.tripId, s.pid, s.val)
  ELSE RemoveHandler(ps, s.tripId, s.pid)
\* The answers in slots a and b and the stored passengers are those of a
\* running alone and then b.
SerialOrder(a, b) ==
  LET first == SerialRun(epoch.passengers, slots[a])
      second == SerialRun(first.passengers, slots[b])
  IN
  /\ slots[a].status = first.status /\ slots[a].error = first.error
  /\ slots[a].passengers = first.body
  /\ slots[b].status = second.status /\ slots[b].error = second.error
  /\ slots[b].passengers = second.body
  /\ passengers = second.passengers
\* C5: two payment or delete requests on the same passenger that are in
\* progress at once are answered, and leave the datastore, as some serial order
\* of the two would (so a payment update racing a delete is answered 404 or
\* 200, never 500).
Serializable ==
  \A a, b \in DOMAIN slots :
    (/\ a # b
     /\ epoch.ops = <<a, b>>
     /\ slots[a].pc = "done" /\ slots[b].pc = "done"
     /\ slots[a].op \in {"pay", "remove"} /\ slots[b].op \in {"pay", "remove"}
     /\ Handled(slots[a]) /\ Handled(slots[b])
     /\ slots[a].pid = slots[b].pid)
      => SerialOrder(a, b) \/ SerialOrder(b, a)

\* C6: the payment call that succeeded, made again with the same trip,
\* passenger and boolean and nothing in between, answers 200 with the same
\* passenger and leaves the stored state as the first call left it.
Idempotent ==
  \A r \in DOMAIN slots :
    LET s == slots[r] IN
    (Fresh(r) /\ s.op = "pay" /\ s.repeat) =>
      s.status = 200 /\ s.passengers = s.prev /\ DbUnchanged
\* The same payment call was made twice in a row and both were answered.
IdempotentWitness ==
  \E r \in DOMAIN slots :
    Fresh(r) /\ slots[r].op = "pay" /\ slots[r].repeat /\ Len(slots[r].prev) = 1

TwoParts(h) == Len(h) = 3 /\ h[1] # " " /\ h[2] = " " /\ h[3] # " "
\* C8 as stated: in the authenticated variant a request without the header is
\* answered 401, one whose header has a malformed scheme or shape 401 with the
\* "malformatted" error, one whose token is invalid 401 with the "invalid"
\* error, each with the datastore untouched; any other request reaches its
\* handler with the token's subject as req.userId.
MalformedIsMalformatted ==
  \A r \in DOMAIN slots :
    LET s == slots[r]
        h == s.auth
    IN
    (variant = "api" /\ s.pc # "idle") =>
      /\ IF h = <<>> THEN s.status = 401
         ELSE IF ~TwoParts(h) \/ h[1] \notin {"Bearer", "bearer", "BEARER"}
         THEN s.status = 401 /\ s.error = "Token malformatted"
         ELSE IF h[3] # "tokA" THEN s.status = 401 /\ s.error = "Token invalid"
         ELSE s.status # 401 /\ s.userId = "u1"
      /\ (Fresh(r) /\ s.status = 401) => DbUnchanged
\* C8 amended: in the authenticated variant a request without the header is
\* answered 401 "No token provided", one whose header is not two words 401
\* "Token error", one whose scheme is not Bearer 401 "Token malformatted", one
\* whose token does not verify 401 "Token invalid", each with the datastore
\* untouched; every other request reaches its handler with the token's subject
\* as req.userId, and no handler runs otherwise.
AccessCheck ==
  \A r \in DOMAIN slots :
    LET s == slots[r]
        h == s.auth
    IN
    (variant = "api" /\ s.pc # "idle") =>
      /\ IF h = <<>> THEN s.status = 401 /\ s.error = "No token provided"
         ELSE IF ~TwoParts(h) THEN s.status = 401 /\ s.error = "Token error"
         ELSE IF h[1] \notin {"Bearer", "bearer", "BEARER"}
         THEN s.status = 401 /\ s.error = "Token malformatted"
         ELSE IF h[3] # "tokA" THEN s.status = 401 /\ s.error = "Token invalid"
         ELSE s.status # 401 /\ s.userId = "u1"
      /\ s.status = 401 => s.pc = "done" /\ s.userId = ""
      /\ (Fresh(r) /\ s.status = 401) => DbUnchanged
\* A request whose header is a single word was answered, on a datastore that
\* holds a trip.
AccessCheckWitness ==
  \E r \in DOMAIN slots :
    /\ Fresh(r) /\ variant = "api" /\ trips # {}
    /\ slots[r].auth = <<"Bearer">> /\ slots[r].error = "Token error"

\* C9: hasPaid is a boolean, and a stored passenger changes only in the step
\* of a payment update that succeeds for that passenger and its trip, which
\* changes its hasPaid alone, to the value sent; every other step, failed
\* requests included, leaves each passenger that stays stored as it was.
PaymentFrame ==
  [][\A p \in passengers : \A q \in passengers' :
       q.id = p.id =>
         \/ q = p
         \/ \E r \in DOMAIN slots :
              /\ slots[r].pc = "update" /\ slots[r].op = "pay"
              /\ slots[r].pid = p.id /\ slots[r].tripId = p.tripId
              /\ slots'[r].status = 200
              /\ q.hasPaid \in BOOLEAN
              /\ q = [p EXCEPT !.hasPaid = (slots[r].val = "true")]]_vars
\* A payment update changed the flag of a passenger while another passenger of
\* the same trip was stored.
PaymentFrameWitness ==
  \E r \in DOMAIN slots :
    /\ Fresh(r) /\ slots[r].op = "pay" /\ slots[r].status = 200
    /\ \E p \in epoch.passengers :
         p.id = slots[r].pid /\ p.hasPaid # (slots[r].val = "true")
    /\ \E p \in passengers : p.id # slots[r].pid /\ p.tripId = slots[r].tripId

\* C10: the manifest of an existing trip is answered 200 as a PDF attachment
\* holding the title, the header row and one data row per passenger loaded with
\* the trip, the row of the passenger at index i at tableTop + (i + 2) * 20 with
\* hasPaid as Sim / Nao; without passengers it holds title and header row only;
\* for an absent trip the answer is 404, with no PDF header set and no document.
ManifestLayout ==
  \A r \in DOMAIN slots :
    LET s == slots[r]
        trip == {t \in epoch.trips : t.id = s.tripId}
        rows == {p \in epoch.passengers : p.tripId = s.tripId}
        n == Len(s.passengers)
    IN
    (Fresh(r) /\ s.op = "pdf" /\ Handled(s)) =>
      IF trip = {}
      THEN /\ s.status = 404 /\ s.error = "Trip not found"
           /\ s.contentType = "" /\ s.attachment = 0 /\ s.title = "" /\ s.doc = <<>>
      ELSE /\ s.status = 200
           /\ s.contentType = "application/pdf" /\ s.attachment = s.tripId
           /\ \A t \in trip : s.title = t.destination
           /\ {s.passengers[i] : i \in 1..n} = rows /\ n = Cardinality(rows)
           /\ Len(s.doc) = 4 + 4 * n
           /\ <<s.doc[1].text, s.doc[2].text, s.doc[3].text, s.doc[4].text>>
                = <<"Nome", "CPF", "Assento", "Pago">>
           /\ \A k \in 1..4 : s.doc[k].y = s.tableTop
           /\ \A i \in 0..(n - 1) :
                LET p == s.passengers[i + 1]
                    at == 4 + 4 * i
                IN
                /\ \A k \in 1..4 : s.doc[at + k].y = s.tableTop + (i + 2) * 20
                /\ <<s.doc[at + 1].text, s.doc[at + 2].text, s.doc[at + 3].text>>
                     = <<p.name, p.cpf, p.seatNumber>>
                /\ s.doc[at + 4].text = (IF p.hasPaid THEN "Sim" ELSE "Nao")
           /\ \A k \in 0..n :
                <<s.doc[4 * k + 1].x, s.doc[4 * k + 2].x, s.doc[4 * k + 3].x, s.doc[4 * k + 4].x>>
                  = <<50, 250, 400, 480>>
\* The manifest of a trip with two passengers, one paid and one not, was
\* answered.
ManifestLayoutWitness ==
  \E r \in DOMAIN slots :
    /\ Fresh(r) /\ slots[r].op = "pdf" /\ slots[r].status = 200
    /\ Len(slots[r].passengers) = 2
    /\ slots[r].passengers[1].hasPaid # slots[r].passengers[2].hasPaid

====
